---- MODULE Spec2Model ----
(***************************************************************************)
(* A model of the two LassoESM example notebooks.                          *)
(*                                                                         *)
(*  - the embedding extraction notebook: MODELS, get_mean_rep,             *)
(*    process_embeddings and the __main__ loop over MODELS.keys()          *)
(*    (specification Spec);                                                *)
(*  - the substrate tolerance notebook: the data loading cell, the grid    *)
(*    search cell and cv_res (specification SpecCV).                       *)
(*                                                                         *)
(* The pretrained encoders, pandas, numpy and scikit-learn are libraries   *)
(* the notebooks call; each call is modelled by what the call is           *)
(* documented to do, with every way it can raise as a separate outcome.    *)
(***************************************************************************)
EXTENDS Integers, Sequences, FiniteSets, TLC

VARIABLES
    csv,         \* the input CSV file on disk (fixed during a session)
    files,       \* output file name -> what is on disk under that name
    status,      \* the extraction cell: "idle", "running", "finished", "failed"
    queue,       \* model names the running cell has still to pass to process_embeddings
    runs,        \* how many times the operator has run an extraction cell
    pc,          \* position inside the current process_embeddings call
    model_name,  \* argument of the current call
    config,      \* local: MODELS[model_name]
    model,       \* local: the loaded encoder
    tokenizer,   \* local: the loaded tokenizer
    seq_ls,      \* local: first column of the CSV
    seq_embs,    \* local: embeddings collected so far, then the stacked matrix
    err,         \* the exception that ended the current run, or "none"
    trace,       \* history: the library calls the current call has made, in order
    snap,        \* history: files as they were when the current call started
    written,     \* history: output files saved by a completed call of this session
    Xs,          \* tolerance notebook: the feature matrix, one entry per sample
    ys,          \* tolerance notebook: the labels
    best_params, \* tolerance notebook: family -> the grid point the search chose
    cvpc,        \* position inside the current cv_res call
    estimators,  \* cv_res local: RF, Ada, SVM, MLP
    cv,          \* cv_res local: the RepeatedKFold splitter
    fam,         \* index in ScoreOrder of the cross_val_score call in progress
    gen,         \* cross_val_score: the state of the generator cv.split(Xs)
    inflight,    \* cross_val_score: fits dispatched to workers and not yet back
    scores,      \* cross_val_score: the result array, -1 where a fit is not back
    raw,         \* cv_res locals MLP_CV, RF_CV, Ada_CV, SVC_CV
    res,         \* what each cv_res call of the session returned
    parts,       \* history: family -> the splits its cross_val_score call drew
    used         \* history: the best_params each cv_res call was given

xvars == <<csv, files, status, queue, runs, pc, model_name, config, model,
           tokenizer, seq_ls, seq_embs, err, trace, snap, written>>

cvars == <<Xs, ys, best_params, cvpc, estimators, cv, fam, gen, inflight,
           scores, raw, res, parts, used>>

vars == <<xvars, cvars>>

(***************************************************************************)
(* Bounds of the model.                                                    *)
(***************************************************************************)
MaxRows == 3      \* data rows of the input CSV
MaxRuns == 2      \* extraction cells the operator runs in one session
HiddenDim == 2    \* width of the encoder's hidden states
Modulus == 3      \* hidden state components range over 0..Modulus-1

(***************************************************************************)
(* The configuration.                                                      *)
(***************************************************************************)
MODELS ==
    [Lasso_ESM  |-> [model_path  |-> "ShuklaGroupIllinois/LassoESM",
                     output_file |-> "FusA_LassoESM.npy"],
     VanillaESM |-> [model_path  |-> "facebook/esm2_t33_650M_UR50D",
                     output_file |-> "FusA_VanillaESM.npy"],
     PeptideESM |-> [model_path  |-> "ShuklaGroupIllinois/PeptideESM2_650M",
                     output_file |-> "FusA_PeptideESM_650M.npy"]]

\* MODELS.keys(): a dict iterates in insertion order.
ModelKeys == <<"Lasso_ESM", "VanillaESM", "PeptideESM">>

\* A name process_embeddings can be called with that MODELS does not hold.
Unconfigured == "ESM1b"

OutputFiles == {MODELS[k].output_file : k \in DOMAIN MODELS}

None == [path |-> "None", training |-> FALSE]
NoConfig == [model_path |-> "None", output_file |-> "None"]

(***************************************************************************)
(* The input file.  A cell of the first column is a string of residues, or *)
(* NaN where the CSV has an empty field (pandas reads it as a float).      *)
(***************************************************************************)
Str(residues) == [isStr |-> TRUE, res |-> residues]
NaN == [isStr |-> FALSE, res |-> <<>>]

Cells == {Str(<<"A">>), Str(<<"L", "A">>), NaN}

\* The label in the second column of a row, fixed by the row's sequence.
LabelOf(cell) == IF cell = Str(<<"A">>) THEN 1 ELSE 0

RowsUpTo(n) == UNION {[1..k -> Cells] : k \in 0..n}

\* exists: the path names a file; ncols = 0: the file has no header line.
CsvFiles ==
    {[exists |-> FALSE, ncols |-> 0, rows |-> <<>>],
     [exists |-> TRUE, ncols |-> 0, rows |-> <<>>]}
    \cup {[exists |-> TRUE, ncols |-> 2, rows |-> r] : r \in RowsUpTo(MaxRows)}
    \cup {[exists |-> TRUE, ncols |-> 1, rows |-> r] : r \in RowsUpTo(1)}

(***************************************************************************)
(* Files on disk.                                                          *)
(***************************************************************************)
Absent == [kind |-> "absent", rows |-> <<>>]
Partial == [kind |-> "partial", rows |-> <<>>]
Npy(matrix) == [kind |-> "npy", rows |-> matrix]

\* A matrix left by an earlier session on another dataset.
OldRow == [k \in 1..HiddenDim |-> <<0, 1>>]
OldArtifact == Npy(<<OldRow, OldRow, OldRow, OldRow, OldRow>>)

(***************************************************************************)
(* get_mean_rep.                                                           *)
(***************************************************************************)
\* The ESM vocabulary: <cls> 0, <pad> 1, <eos> 2, <unk> 3, then the residues.
Vocab == [L |-> 4, A |-> 5]

\* tokenizer(sequence, return_tensors='pt'): raises on a non-string input.
TokenizerAccepts(sequence) == sequence.isStr

Tokenize(sequence) ==
    <<0>> \o [i \in 1..Len(sequence.res) |-> Vocab[sequence.res[i]]] \o <<2>>

\* The weights of a checkpoint, as far as the model tells checkpoints apart.
Weight(path) ==
    CASE path = "ShuklaGroupIllinois/LassoESM" -> 1
      [] path = "facebook/esm2_t33_650M_UR50D" -> 2
      [] OTHER -> 3

\* results.hidden_states[-1][0][p]: a fixed function of the checkpoint, of the
\* token ids and of the position.
HiddenState(path, ids, p) ==
    [k \in 1..HiddenDim |-> (Weight(path) * ids[p] + k * p + Len(ids)) % Modulus]

RECURSIVE SumTo(_, _, _, _)
SumTo(path, ids, k, n) ==
    IF n = 0 THEN 0 ELSE HiddenState(path, ids, n)[k] + SumTo(path, ids, k, n - 1)

\* representations.mean(dim=0): component k is <<sum over the tokens, token count>>.
MeanOverTokens(path, ids) ==
    [k \in 1..HiddenDim |-> <<SumTo(path, ids, k, Len(ids)), Len(ids)>>]

get_mean_rep(sequence, m, tok) == MeanOverTokens(m.path, Tokenize(sequence))

(***************************************************************************)
(* Exceptions: nothing in either notebook catches one, so an exception in  *)
(* process_embeddings ends the call and the cell that made it.             *)
(***************************************************************************)
Event(op, i) == [op |-> op, i |-> i]

\* Mutant of Raise: the loop swallows the exception and goes on to the next model.
RaiseAndContinue(kind) ==
    /\ pc' = "idle"
    /\ err' = kind
    /\ UNCHANGED <<status, queue>>

Raise(kind) ==
    /\ pc' = "raised"
    /\ err' = kind
    /\ status' = "failed"
    /\ UNCHANGED queue

(***************************************************************************)
(* process_embeddings(data_file, model_name), one action per statement     *)
(* that can raise.                                                         *)
(***************************************************************************)
Log(op, i) == trace' = Append(trace, Event(op, i))

\* Mutant of Check: an unknown name falls back to the first configured model.
CheckFallback ==
    /\ pc = "check"
    /\ config' = IF model_name \in DOMAIN MODELS
                 THEN MODELS[model_name]
                 ELSE MODELS[ModelKeys[1]]
    /\ pc' = "load_model"
    /\ UNCHANGED <<csv, files, status, queue, runs, model_name, model, tokenizer,
                   seq_ls, seq_embs, err, trace, snap, written>>
    /\ UNCHANGED cvars

\* if model_name not in MODELS: raise ValueError(...); config = MODELS[model_name]
Check ==
    /\ pc = "check"
    /\ IF model_name \notin DOMAIN MODELS
       THEN /\ Raise("ValueError: not configured")
            /\ UNCHANGED <<config, trace>>
       ELSE /\ config' = MODELS[model_name]
            /\ pc' = "load_model"
            /\ UNCHANGED <<err, status, queue, trace>>
    /\ UNCHANGED <<csv, files, runs, model_name, model, tokenizer, seq_ls,
                   seq_embs, snap, written>>
    /\ UNCHANGED cvars

\* model = AutoModelForMaskedLM.from_pretrained(config["model_path"]).to(device)
\* from_pretrained returns the module in evaluation mode, or raises.
LoadModel ==
    /\ pc = "load_model"
    /\ Log("from_pretrained_model", 0)
    /\ \/ /\ model' = [path |-> config.model_path, training |-> FALSE]
          /\ pc' = "load_tokenizer"
          /\ UNCHANGED <<err, status, queue>>
       \/ /\ Raise("OSError: from_pretrained")
          /\ UNCHANGED model
    /\ UNCHANGED <<csv, files, runs, model_name, config, tokenizer, seq_ls,
                   seq_embs, snap, written>>
    /\ UNCHANGED cvars

\* tokenizer = AutoTokenizer.from_pretrained(config["model_path"])
LoadTokenizer ==
    /\ pc = "load_tokenizer"
    /\ Log("from_pretrained_tokenizer", 0)
    /\ \/ /\ tokenizer' = [path |-> config.model_path, training |-> FALSE]
          /\ pc' = "eval"
          /\ UNCHANGED <<err, status, queue>>
       \/ /\ Raise("OSError: from_pretrained")
          /\ UNCHANGED tokenizer
    /\ UNCHANGED <<csv, files, runs, model_name, config, model, seq_ls,
                   seq_embs, snap, written>>
    /\ UNCHANGED cvars

\* Mutant of Eval: the call to model.eval() is left out.
EvalOmitted ==
    /\ pc = "eval"
    /\ pc' = "read_csv"
    /\ UNCHANGED <<csv, files, status, queue, runs, model_name, config, model,
                   tokenizer, seq_ls, seq_embs, err, trace, snap, written>>
    /\ UNCHANGED cvars

\* model.eval()
Eval ==
    /\ pc = "eval"
    /\ model' = [model EXCEPT !.training = FALSE]
    /\ Log("eval", 0)
    /\ pc' = "read_csv"
    /\ UNCHANGED <<csv, files, status, queue, runs, model_name, config,
                   tokenizer, seq_ls, seq_embs, err, snap, written>>
    /\ UNCHANGED cvars

\* The first occurrences of the elements of s, in order.
RECURSIVE Unique(_)
Unique(s) ==
    IF s = <<>> THEN <<>>
    ELSE LET init == Unique(SubSeq(s, 1, Len(s) - 1)) IN
         IF \E i \in 1..(Len(s) - 1) : s[i] = s[Len(s)]
         THEN init
         ELSE Append(init, s[Len(s)])

\* Mutant of ReadData: seq_ls = data.iloc[:, 0].unique().tolist()
ReadDataUnique ==
    /\ pc = "read_csv"
    /\ trace' = Append(trace, Event("read_csv", 0))
    /\ IF ~csv.exists
       THEN Raise("FileNotFoundError") /\ UNCHANGED seq_ls
       ELSE IF csv.ncols = 0
       THEN Raise("EmptyDataError") /\ UNCHANGED seq_ls
       ELSE /\ seq_ls' = Unique(csv.rows)
            /\ pc' = "embed"
            /\ UNCHANGED <<err, status, queue>>
    /\ UNCHANGED <<csv, files, runs, model_name, config, model, tokenizer,
                   seq_embs, snap, written>>
    /\ UNCHANGED cvars

\* data = pd.read_csv(data_file); seq_ls = data.iloc[:, 0].tolist()
\* read_csv raises FileNotFoundError on a missing path and EmptyDataError on a
\* file with no header line; a file with a header line and no data rows reads
\* as a frame with zero rows.
ReadData ==
    /\ pc = "read_csv"
    /\ Log("read_csv", 0)
    /\ IF ~csv.exists
       THEN Raise("FileNotFoundError") /\ UNCHANGED seq_ls
       ELSE IF csv.ncols = 0
       THEN Raise("EmptyDataError") /\ UNCHANGED seq_ls
       ELSE /\ seq_ls' = csv.rows
            /\ pc' = "embed"
            /\ UNCHANGED <<err, status, queue>>
    /\ UNCHANGED <<csv, files, runs, model_name, config, model, tokenizer,
                   seq_embs, snap, written>>
    /\ UNCHANGED cvars

\* Mutant of Embed: a sequence the tokenizer rejects ends the loop, and what was
\* embedded before it is saved.
EmbedSaveOnError ==
    /\ pc = "embed"
    /\ Len(seq_embs) < Len(seq_ls)
    /\ LET i == Len(seq_embs) + 1 IN
       /\ trace' = Append(trace, Event("get_mean_rep", i))
       /\ IF TokenizerAccepts(seq_ls[i])
          THEN /\ seq_embs' = Append(seq_embs, get_mean_rep(seq_ls[i], model, tokenizer))
               /\ UNCHANGED <<pc, files, written>>
          ELSE /\ files' = [files EXCEPT ![config.output_file] = Npy(seq_embs)]
               /\ written' = written \cup {config.output_file}
               /\ pc' = "done"
               /\ UNCHANGED seq_embs
    /\ UNCHANGED <<csv, status, queue, runs, model_name, config, model, tokenizer,
                   seq_ls, err, snap>>
    /\ UNCHANGED cvars

\* seq_embs = [get_mean_rep(seq, model, tokenizer) for seq in seq_ls], one
\* element per step.
Embed ==
    /\ pc = "embed"
    /\ Len(seq_embs) < Len(seq_ls)
    /\ LET i == Len(seq_embs) + 1 IN
       /\ Log("get_mean_rep", i)
       /\ IF TokenizerAccepts(seq_ls[i])
          THEN /\ seq_embs' = Append(seq_embs, get_mean_rep(seq_ls[i], model, tokenizer))
               /\ UNCHANGED <<pc, err, status, queue>>
          ELSE /\ Raise("ValueError: text input must be of type str")
               /\ UNCHANGED seq_embs
    /\ UNCHANGED <<csv, files, runs, model_name, config, model, tokenizer,
                   seq_ls, snap, written>>
    /\ UNCHANGED cvars

\* Mutant of Save: the rows are appended to the matrix the file already holds.
SaveAppend ==
    /\ pc = "embed"
    /\ Len(seq_embs) = Len(seq_ls)
    /\ trace' = Append(trace, Event("save", 0))
    /\ files' = [files EXCEPT ![config.output_file] = Npy(@.rows \o seq_embs)]
    /\ written' = written \cup {config.output_file}
    /\ pc' = "done"
    /\ UNCHANGED <<csv, status, queue, runs, model_name, config, model, tokenizer,
                   seq_ls, seq_embs, err, snap>>
    /\ UNCHANGED cvars

\* seq_embs = np.array(seq_embs); np.save(config["output_file"], seq_embs)
\* np.save opens the file for writing, which empties it, and then writes the
\* array: it can raise before the file is opened or after.
Save ==
    /\ pc = "embed"
    /\ Len(seq_embs) = Len(seq_ls)
    /\ Log("save", 0)
    /\ \/ /\ files' = [files EXCEPT ![config.output_file] = Npy(seq_embs)]
          /\ written' = written \cup {config.output_file}
          /\ pc' = "done"
          /\ UNCHANGED <<err, status, queue>>
       \/ /\ Raise("OSError: save")
          /\ UNCHANGED <<files, written>>
       \/ /\ Raise("OSError: save")
          /\ files' = [files EXCEPT ![config.output_file] = Partial]
          /\ written' = written \ {config.output_file}
    /\ UNCHANGED <<csv, runs, model_name, config, model, tokenizer, seq_ls,
                   seq_embs, snap>>
    /\ UNCHANGED cvars

(***************************************************************************)
(* The cells that call process_embeddings.                                 *)
(***************************************************************************)
\* for model_name in MODELS.keys(): process_embeddings(data_file, model_name)
Begin(names) ==
    /\ status # "running"
    /\ runs < MaxRuns
    /\ status' = "running"
    /\ queue' = names
    /\ runs' = runs + 1
    /\ err' = "none"
    /\ pc' = "idle"
    /\ UNCHANGED <<csv, files, model_name, config, model, tokenizer, seq_ls,
                   seq_embs, trace, snap, written>>
    /\ UNCHANGED cvars

Main == Begin(ModelKeys)

\* The operator calls process_embeddings(data_file, name) in a cell of its own.
Direct == \E name \in DOMAIN MODELS \cup {Unconfigured} : Begin(<<name>>)

\* The next call of the running cell: a fresh frame.
Call ==
    /\ status = "running"
    /\ pc \in {"idle", "done"}
    /\ queue # <<>>
    /\ model_name' = Head(queue)
    /\ queue' = Tail(queue)
    /\ pc' = "check"
    /\ config' = NoConfig
    /\ model' = None
    /\ tokenizer' = None
    /\ seq_ls' = <<>>
    /\ seq_embs' = <<>>
    /\ trace' = <<>>
    /\ snap' = files
    /\ UNCHANGED <<csv, files, status, runs, err, written>>
    /\ UNCHANGED cvars

\* The last call returned: the cell is done.
Finish ==
    /\ status = "running"
    /\ pc \in {"idle", "done"}
    /\ queue = <<>>
    /\ status' = "finished"
    /\ UNCHANGED <<csv, files, queue, runs, pc, model_name, config, model,
                   tokenizer, seq_ls, seq_embs, err, trace, snap, written>>
    /\ UNCHANGED cvars

XInit ==
    /\ csv \in CsvFiles
    /\ files \in [OutputFiles -> {Absent, OldArtifact}]
    /\ status = "idle"
    /\ queue = <<>>
    /\ runs = 0
    /\ pc = "idle"
    /\ model_name = "None"
    /\ config = NoConfig
    /\ model = None
    /\ tokenizer = None
    /\ seq_ls = <<>>
    /\ seq_embs = <<>>
    /\ err = "none"
    /\ trace = <<>>
    /\ snap = files
    /\ written = {}

Next ==
    \/ Main
    \/ Direct
    \/ Call
    \/ Check
    \/ LoadModel
    \/ LoadTokenizer
    \/ Eval
    \/ ReadData
    \/ Embed
    \/ Save
    \/ Finish


(***************************************************************************)
(* The substrate tolerance notebook.                                       *)
(***************************************************************************)
NSamples == 11      \* rows of the dataset (KFold needs at least n_splits)
MaxEvals == 2       \* times the operator runs the evaluation cell
ScoreLevels == 3    \* a fold's score ranges over 0..ScoreLevels-1

random_seed == 42
n_splits == 10
n_repeats == 5

Families == {"RF", "AdaBoost", "SVC", "MLP"}

\* The worker processes n_jobs=-1 resolves to.
Workers == {"w1", "w2"}

\* Records the grid search can end with: per family, the index of the grid
\* point it chose.
ParamChoices ==
    {[f \in Families |-> 1],
     [f \in Families |-> IF f \in {"RF", "MLP"} THEN 2 ELSE 1]}

\* The order of the four cross_val_score calls.
ScoreOrder == <<"MLP", "RF", "AdaBoost", "SVC">>

\* The dataset the data loading cell reads: features and labels, row by row.
Datasets ==
    {[X |-> [i \in 1..NSamples |-> i % 3], y |-> [i \in 1..NSamples |-> i % 2]],
     [X |-> [i \in 1..NSamples |-> i % 3],
      y |-> [i \in 1..NSamples |-> IF i <= 3 THEN 1 ELSE 0]]}

(***************************************************************************)
(* numpy's RandomState and sklearn's check_random_state.  A random_state   *)
(* is an int (a seed), an instance (a generator with a state of its own)   *)
(* or None (the process-wide generator, seeded from the operating system). *)
(***************************************************************************)
IntSeed(seed) == [kind |-> "int", v |-> seed]
RngSeed(seed) == seed % 65537
RngNext(state) == (75 * state + 74) % 65537
Instance(seed) == [kind |-> "instance", v |-> RngSeed(seed)]
NoSeed == [kind |-> "None", v |-> 0]

\* Seeds the operating system can hand to an unseeded generator.
EntropySeeds == {0, 1}

\* An int makes a new generator from the seed; an instance is used as it is.
check_random_state(rs) == IF rs.kind = "int" THEN RngSeed(rs.v) ELSE rs.v

\* rng.shuffle(indices): positions i = n down to 2 are swapped with a drawn j <= i.
RECURSIVE Shuffle(_, _, _)
Shuffle(perm, state, i) ==
    IF i < 2
    THEN [perm |-> perm, rng |-> state]
    ELSE LET s == RngNext(state)
             j == (s % i) + 1
         IN Shuffle([perm EXCEPT ![i] = perm[j], ![j] = perm[i]], s, i - 1)

(***************************************************************************)
(* RepeatedKFold(n_splits, n_repeats, random_state).split(X): a generator. *)
(* It draws one generator for the whole split, and each repeat is a        *)
(* KFold(shuffle=True) on that generator: the indices are shuffled, then   *)
(* cut into n_splits consecutive test folds, the first n % n_splits of     *)
(* them one longer.                                                        *)
(***************************************************************************)
RepeatedKFold(splits, repeats, rs) ==
    [n_splits |-> splits, n_repeats |-> repeats, random_state |-> rs]

\* Mutant of MakeSplitter: random_state=np.random.RandomState(random_seed), one
\* generator shared by every split() call.
MakeSplitterShared(seed) == RepeatedKFold(n_splits, n_repeats, Instance(seed))

\* cv = RepeatedKFold(n_splits=10, n_repeats=5, random_state=random_seed)
MakeSplitter(seed) == RepeatedKFold(n_splits, n_repeats, IntSeed(seed))

FoldStart(splitter, n, f) ==
    f * (n \div splitter.n_splits)
    + (IF f < n % splitter.n_splits THEN f ELSE n % splitter.n_splits)

FoldSize(splitter, n, f) ==
    (n \div splitter.n_splits) + (IF f < n % splitter.n_splits THEN 1 ELSE 0)

TestIndices(splitter, perm, f) ==
    LET n == Len(perm) IN
    {perm[p] : p \in (FoldStart(splitter, n, f) + 1)
                     .. (FoldStart(splitter, n, f) + FoldSize(splitter, n, f))}

\* split(X) called: nothing drawn yet.
NewSplit(splitter, n) ==
    [rng |-> check_random_state(splitter.random_state), repeat |-> 0, fold |-> 0,
     perm |-> [i \in 1..n |-> i], count |-> 0]

Exhausted(splitter, g) == g.repeat >= splitter.n_repeats

\* The generator resumed: the split it yields and its state after the yield.
GenNext(splitter, g) ==
    LET sh == IF g.fold = 0
              THEN Shuffle([i \in 1..Len(g.perm) |-> i], g.rng, Len(g.perm))
              ELSE [perm |-> g.perm, rng |-> g.rng]
        last == g.fold + 1 = splitter.n_splits
    IN [split |-> [idx |-> g.count + 1, repeat |-> g.repeat, fold |-> g.fold,
                   test |-> TestIndices(splitter, sh.perm, g.fold)],
        gen |-> [rng |-> sh.rng,
                 repeat |-> IF last THEN g.repeat + 1 ELSE g.repeat,
                 fold |-> IF last THEN 0 ELSE g.fold + 1,
                 perm |-> sh.perm,
                 count |-> g.count + 1]]

\* A generator instance handed to the splitter is the one the split advances.
Advance(splitter, state) ==
    IF splitter.random_state.kind = "instance"
    THEN [splitter EXCEPT !.random_state.v = state]
    ELSE splitter

(***************************************************************************)
(* Estimators and the score of one fit.                                    *)
(***************************************************************************)
\* Mutant of MakeEstimator: the seed is taken from a counter that differs from
\* one cv_res call to the next.
MakeEstimatorReseeded(family, params, rs) ==
    [family |-> family, params |-> params, random_state |-> IntSeed(rs.v + Len(res))]

\* Family(**best_params[family], random_state=random_seed)
MakeEstimator(family, params, rs) ==
    [family |-> family, params |-> params, random_state |-> rs]

\* The seeds a fit of a clone of the estimator can run with.
FitSeeds(est) ==
    IF est.random_state.kind = "int" THEN {est.random_state.v} ELSE EntropySeeds

FamilyIndex(family) ==
    CASE family = "RF" -> 1 [] family = "AdaBoost" -> 2 [] family = "SVC" -> 3
      [] OTHER -> 4

RECURSIVE SumIn(_, _, _)
SumIn(f, S, n) ==
    IF n = 0 THEN 0
    ELSE (IF n \in S THEN f[n] ELSE 0) + SumIn(f, S, n - 1)

\* balanced accuracy of the estimator fitted on the train rows and scored on
\* the test rows: a fixed function of the family, the parameters, the seed of
\* the fit, and the data on each side of the split.
FoldScore(est, seed, X, y, test) ==
    LET train == (1..Len(X)) \ test IN
    (FamilyIndex(est.family) * est.params + seed + SumIn(X, test, Len(X))
     + 2 * SumIn(y, test, Len(y)) + SumIn(y, train, Len(y))
     + Cardinality(test)) % ScoreLevels

(***************************************************************************)
(* np.mean(a.reshape(-1, 10), axis=1); a mean is <<sum, count>>.           *)
(***************************************************************************)
RECURSIVE SeqSum(_)
SeqSum(s) == IF s = <<>> THEN 0 ELSE Head(s) + SeqSum(Tail(s))

Reshape(a, ncol) ==
    [r \in 1..(Len(a) \div ncol) |-> [c \in 1..ncol |-> a[(r - 1) * ncol + c]]]

MeanAxis1(m) == [r \in 1..Len(m) |-> <<SeqSum(m[r]), Len(m[r])>>]

\* Mutant of RepeatMeans: the mean is taken along axis 0.
RepeatMeansAxis0(a) ==
    LET m == Reshape(a, 10) IN
    [c \in 1..10 |-> <<SeqSum([r \in 1..Len(m) |-> m[r][c]]), Len(m)>>]

RepeatMeans(a) == MeanAxis1(Reshape(a, 10))

(***************************************************************************)
(* The cells.                                                              *)
(***************************************************************************)
NoParams == [f \in Families |-> 0]
NoEstimators ==
    [f \in Families |-> [family |-> f, params |-> 0, random_state |-> NoSeed]]
NoSplitter == RepeatedKFold(0, 0, NoSeed)
NoGen == [rng |-> 0, repeat |-> 0, fold |-> 0, perm |-> <<>>, count |-> 0]
NoRaw == [f \in Families |-> <<>>]

\* data = pd.read_csv(...); ys = data.iloc[:, 1].tolist(); Xs = np.load(...)
LoadData ==
    /\ cvpc = "idle"
    /\ Xs = <<>>
    /\ \E d \in Datasets : Xs' = d.X /\ ys' = d.y
    /\ UNCHANGED <<best_params, cvpc, estimators, cv, fam, gen, inflight,
                   scores, raw, res, parts, used>>
    /\ UNCHANGED xvars

\* The grid search cell: its classifiers are built without a random_state, so
\* which grid point wins is not fixed by the data.
GridSearch ==
    /\ cvpc = "idle"
    /\ Xs # <<>>
    /\ best_params = NoParams
    /\ best_params' \in ParamChoices
    /\ UNCHANGED <<Xs, ys, cvpc, estimators, cv, fam, gen, inflight, scores,
                   raw, res, parts, used>>
    /\ UNCHANGED xvars

\* res_LassoESM = cv_res(Xs, ys, best_params), up to the construction of cv.
CvRes ==
    /\ cvpc \in {"idle", "returned"}
    /\ best_params # NoParams
    /\ Len(res) < MaxEvals
    /\ estimators' = [f \in Families |->
                         MakeEstimator(f, best_params[f], IntSeed(random_seed))]
    /\ cv' = MakeSplitter(random_seed)
    /\ fam' = 1
    /\ raw' = NoRaw
    /\ parts' = NoRaw
    /\ used' = Append(used, best_params)
    /\ cvpc' = "call"
    /\ UNCHANGED <<Xs, ys, best_params, gen, inflight, scores, res>>
    /\ UNCHANGED xvars

\* cross_val_score(est, Xs, ys, cv=cv, n_jobs=-1, ...) entered: cv.split(Xs)
\* is called once and the result array is as long as the splits are many.
CrossValScore ==
    /\ cvpc = "call"
    /\ gen' = NewSplit(cv, Len(Xs))
    /\ inflight' = {}
    /\ scores' = [i \in 1..(cv.n_splits * cv.n_repeats) |-> -1]
    /\ cvpc' = "score"
    /\ UNCHANGED <<Xs, ys, best_params, estimators, cv, fam, raw, res, parts, used>>
    /\ UNCHANGED xvars

\* The parent draws the next split from the generator and hands the fit to a
\* free worker.
Dispatch ==
    /\ cvpc = "score"
    /\ ~Exhausted(cv, gen)
    /\ Cardinality(inflight) < Cardinality(Workers)
    /\ LET nx == GenNext(cv, gen) IN
       /\ gen' = nx.gen
       /\ cv' = Advance(cv, nx.gen.rng)
       /\ inflight' = inflight \cup {nx.split}
       /\ parts' = [parts EXCEPT ![ScoreOrder[fam]] = Append(@, nx.split)]
    /\ UNCHANGED <<Xs, ys, best_params, cvpc, estimators, fam, scores, raw, res, used>>
    /\ UNCHANGED xvars

\* A worker is back, in any order: its score goes to the place of its split.
Complete ==
    /\ cvpc = "score"
    /\ \E t \in inflight :
       \E seed \in FitSeeds(estimators[ScoreOrder[fam]]) :
          /\ scores' = [scores EXCEPT
                           ![t.idx] = FoldScore(estimators[ScoreOrder[fam]],
                                                seed, Xs, ys, t.test)]
          /\ inflight' = inflight \ {t}
    /\ UNCHANGED <<Xs, ys, best_params, cvpc, estimators, cv, fam, gen, raw,
                   res, parts, used>>
    /\ UNCHANGED xvars

\* cross_val_score returns the array: MLP_CV, RF_CV, Ada_CV, SVC_CV in turn.
Gather ==
    /\ cvpc = "score"
    /\ Exhausted(cv, gen)
    /\ inflight = {}
    /\ raw' = [raw EXCEPT ![ScoreOrder[fam]] = scores]
    /\ IF fam < Len(ScoreOrder)
       THEN fam' = fam + 1 /\ cvpc' = "call"
       ELSE fam' = fam /\ cvpc' = "reshape"
    /\ UNCHANGED <<Xs, ys, best_params, estimators, cv, gen, inflight, scores,
                   res, parts, used>>
    /\ UNCHANGED xvars

\* cv_res = {'RF': np.mean(RF_CV.reshape(-1, 10), axis=1), ...}; return cv_res
Return ==
    /\ cvpc = "reshape"
    /\ res' = Append(res, [f \in Families |-> RepeatMeans(raw[f])])
    /\ cvpc' = "returned"
    /\ UNCHANGED <<Xs, ys, best_params, estimators, cv, fam, gen, inflight,
                   scores, raw, parts, used>>
    /\ UNCHANGED xvars

CInit ==
    /\ Xs = <<>>
    /\ ys = <<>>
    /\ best_params = NoParams
    /\ cvpc = "idle"
    /\ estimators = NoEstimators
    /\ cv = NoSplitter
    /\ fam = 1
    /\ gen = NoGen
    /\ inflight = {}
    /\ scores = <<>>
    /\ raw = NoRaw
    /\ res = <<>>
    /\ parts = NoRaw
    /\ used = <<>>

NextCV ==
    \/ LoadData
    \/ GridSearch
    \/ CvRes
    \/ CrossValScore
    \/ Dispatch
    \/ Complete
    \/ Gather
    \/ Return

(***************************************************************************)
(* The specifications: one notebook runs, the other is not open.           *)
(***************************************************************************)
XIdle ==
    /\ csv = [exists |-> FALSE, ncols |-> 0, rows |-> <<>>]
    /\ files = [f \in OutputFiles |-> Absent]
    /\ status = "idle"
    /\ queue = <<>>
    /\ runs = 0
    /\ pc = "idle"
    /\ model_name = "None"
    /\ config = NoConfig
    /\ model = None
    /\ tokenizer = None
    /\ seq_ls = <<>>
    /\ seq_embs = <<>>
    /\ err = "none"
    /\ trace = <<>>
    /\ snap = files
    /\ written = {}

Init == XInit /\ CInit

Spec == Init /\ [][Next]_vars

InitCV == XIdle /\ CInit

SpecCV == InitCV /\ [][NextCV]_vars

(***************************************************************************)
(* The extraction notebook's properties.                                   *)
(***************************************************************************)
\* ys = data.iloc[:, 1].tolist() in the tolerance notebook, on the same file.
Labels(file) == [i \in 1..Len(file.rows) |-> LabelOf(file.rows[i])]

TokenizerError == "ValueError: text input must be of type str"

Logged(op) == \E k \in 1..Len(trace) : trace[k].op = op

\* C1: a call with a model_name that is not a key of MODELS ends, at its first
\* statement, with the "not configured" ValueError: nothing has been loaded,
\* the input has not been read and every output file is as it was.
C1_UnknownModelFailsFirst ==
    (pc \notin {"idle", "check"} /\ model_name \notin DOMAIN MODELS) =>
        /\ pc = "raised"
        /\ err = "ValueError: not configured"
        /\ status = "failed"
        /\ trace = <<>>
        /\ model = None
        /\ tokenizer = None
        /\ seq_ls = <<>>
        /\ files = snap

\* An unknown name was refused in a session that had already saved an artifact.
C1_Witness ==
    /\ pc = "raised"
    /\ model_name = Unconfigured
    /\ \E f \in written : files[f].kind = "npy"

\* C2: when get_mean_rep raises on a sequence, the call has failed without a
\* save and the output files are as they were when the call started; and a
\* matrix found in an output file is one a session left before or has as many
\* rows as the input file has sequences.
C2_ExtractionFailureWritesNothing ==
    /\ err = TokenizerError =>
          /\ pc = "raised"
          /\ status = "failed"
          /\ ~Logged("save")
          /\ files = snap
    /\ \A f \in OutputFiles :
          \/ files[f] \in {Absent, OldArtifact, Partial}
          \/ /\ files[f].kind = "npy"
             /\ Len(files[f].rows) = Len(csv.rows)

\* The tokenizer rejected a sequence that is neither the first nor the last of
\* the input, in a call whose output file held a matrix.
C2_Witness ==
    /\ err = TokenizerError
    /\ Len(seq_embs) >= 1
    /\ Len(seq_embs) + 1 < Len(seq_ls)
    /\ snap[config.output_file] = OldArtifact

\* C3: after a successful call on a non-empty input the model's output file
\* holds a matrix with one row per input sequence, row i being the mean
\* representation of the sequence in row i of the file, the row whose label is
\* at place i of the labels the tolerance notebook reads.
C3_RowsAlignedWithInput ==
    (pc = "done" /\ csv.rows # <<>>) =>
        LET out == files[MODELS[model_name].output_file] IN
        /\ out.kind = "npy"
        /\ Len(out.rows) = Len(csv.rows)
        /\ csv.ncols = 2 => Len(out.rows) = Len(Labels(csv))
        /\ \A i \in 1..Len(csv.rows) :
              out.rows[i] = MeanOverTokens(MODELS[model_name].model_path,
                                           Tokenize(csv.rows[i]))

\* A call succeeded on a labelled file that repeats a sequence and has another.
C3_Witness ==
    /\ pc = "done"
    /\ csv.ncols = 2
    /\ \E i, j, k \in 1..Len(csv.rows) :
          i < j /\ csv.rows[i] = csv.rows[j] /\ csv.rows[k] # csv.rows[i]

\* C7: an input file with no sequence rows, or without the label column, never
\* leads to a completed call, and so to no saved artifact.
C7_EmptyInputNeverSaved ==
    (csv.rows = <<>> \/ csv.ncols < 2) => (pc # "done" /\ written = {})

\* C8: once a step of a call has raised, the cell has failed and stays so: the
\* only step left is the operator running a cell again, so no step is retried
\* and no later model is loaded; and the step that raises leaves the output
\* files of the other models as they were.
C8_FailStop ==
    /\ [](err # "none" => (status = "failed" /\ pc = "raised"))
    /\ [][/\ status = "failed" =>
                (status' = "running" /\ runs' = runs + 1 /\ pc' = "idle"
                 /\ files' = files /\ trace' = trace)
          /\ (err = "none" /\ err' # "none") =>
                \A f \in OutputFiles \ {config.output_file} : files'[f] = files[f]
         ]_vars

\* The loop over MODELS.keys() failed at its second model, after the first
\* model's artifact was saved and with the third model still to come.
C8_Witness ==
    /\ status = "failed"
    /\ runs = 1
    /\ model_name = ModelKeys[2]
    /\ queue = <<ModelKeys[3]>>
    /\ files[MODELS[ModelKeys[1]].output_file].kind = "npy"
    /\ MODELS[ModelKeys[1]].output_file \in written

ExpectedTrace(n) ==
    <<Event("from_pretrained_model", 0), Event("from_pretrained_tokenizer", 0),
      Event("eval", 0), Event("read_csv", 0)>>
    \o [i \in 1..n |-> Event("get_mean_rep", i)]
    \o <<Event("save", 0)>>

\* C9: the library calls of a successful call are, in this order: one model
\* load, one tokenizer load, model.eval(), the read of the input, one
\* get_mean_rep per input sequence in input order, one save; and no
\* get_mean_rep is called on a model in training mode.
C9_StepOrder ==
    /\ pc = "done" => (trace = ExpectedTrace(Len(csv.rows)) /\ ~model.training)
    /\ Logged("get_mean_rep") => (Logged("eval") /\ ~model.training)
    /\ Logged("save") => Len(seq_embs) = Len(seq_ls)

\* A call succeeded on an input of at least two sequences.
C9_Witness == pc = "done" /\ Len(seq_ls) >= 2

\* C10: no two configured models share an output file; a step changes at most
\* the output file of the model of the current call, and only in its save; and
\* a save over a matrix this session saved from the same input leaves an equal
\* matrix.
C10_OwnArtifactOverwritten ==
    /\ \A a, b \in DOMAIN MODELS :
          a # b => MODELS[a].output_file # MODELS[b].output_file
    /\ [][\A f \in OutputFiles :
             /\ files'[f] # files[f] =>
                   (f = config.output_file /\ f = MODELS[model_name].output_file
                    /\ pc = "embed" /\ Len(seq_embs) = Len(seq_ls))
             /\ (f \in written /\ files[f].kind = "npy" /\ files'[f].kind = "npy") =>
                   files'[f] = files[f]
         ]_vars

\* A second run has saved a non-empty matrix over the one the first run saved.
C10_Witness ==
    /\ pc = "done"
    /\ runs = 2
    /\ seq_ls # <<>>
    /\ snap[config.output_file].kind = "npy"
    /\ snap[config.output_file] # OldArtifact
    /\ files[config.output_file] = snap[config.output_file]

(***************************************************************************)
(* The tolerance notebook's properties.                                    *)
(***************************************************************************)
\* The sum of the raw scores a[p.idx] over the splits p of ps drawn in repeat r.
RECURSIVE SumOfRepeat(_, _, _)
SumOfRepeat(ps, a, r) ==
    IF ps = <<>> THEN 0
    ELSE (IF Head(ps).repeat = r THEN a[Head(ps).idx] ELSE 0)
         + SumOfRepeat(Tail(ps), a, r)

SplitsOfRepeat(ps, r) == {k \in 1..Len(ps) : ps[k].repeat = r}

\* C4: what cv_res returns holds, for every family, n_repeats values; value
\* r + 1 is the mean of the n_splits raw scores of the splits drawn in repeat
\* r, which are the raw scores at places 10 r + 1 .. 10 r + 10.
C4_PerRepeatMeans ==
    cvpc = "returned" =>
        \A f \in Families :
            LET out == res[Len(res)][f] IN
            /\ Len(raw[f]) = n_splits * n_repeats
            /\ Len(out) = n_repeats
            /\ \A r \in 0..(n_repeats - 1) :
                  /\ SplitsOfRepeat(parts[f], r) = (10 * r + 1)..(10 * r + 10)
                  /\ \A k \in SplitsOfRepeat(parts[f], r) : parts[f][k].idx = k
                  /\ out[r + 1] = <<SumOfRepeat(parts[f], raw[f], r), n_splits>>

\* cv_res returned means that differ between two repeats of one family and
\* raw scores that differ within one repeat.
C4_Witness ==
    /\ cvpc = "returned"
    /\ \E f \in Families :
          /\ res[Len(res)][f][1] # res[Len(res)][f][2]
          /\ \E i, j \in 1..10 : raw[f][i] # raw[f][j]

\* C5: the k-th split drawn is the same for every family: the same repeat, the
\* same fold and the same test rows (hence the same train rows).
C5_SamePartitions ==
    \A f, g \in Families :
        \A k \in 1..Len(parts[f]) :
            k <= Len(parts[g]) => parts[f][k] = parts[g][k]

\* All four families have been scored, each on n_splits * n_repeats splits, and
\* the repeats of a family cut the rows differently.
C5_Witness ==
    /\ cvpc = "returned"
    /\ \A f \in Families : Len(parts[f]) = n_splits * n_repeats
    /\ \E k \in 1..n_splits : parts["RF"][k].test # parts["RF"][k + n_splits].test

\* C6: two cv_res calls of a session, on the loaded data and with the same
\* best_params, return equal results, whatever the order the workers came
\* back in.
C6_Deterministic ==
    \A a, b \in 1..Len(res) : used[a] = used[b] => res[a] = res[b]

\* cv_res has returned twice, with results that differ from family to family.
C6_Witness ==
    /\ Len(res) >= 2
    /\ cvpc = "returned"
    /\ res[1]["RF"] # res[1]["SVC"]

====
